---- MODULE Spec2Model ----
(***************************************************************************)
(* Lecture21_discrete.ipynb: a linear-probability (OLS), a probit and a    *)
(* logit model of favwin on spread, fitted through the statsmodels formula *)
(* API, with marginal effects and predicted probabilities.                 *)
(*                                                                         *)
(* The notebook is run top to bottom; an exception raised by a cell stops  *)
(* the run.  Library calls are modelled by what the called routine does on *)
(* the call's arguments (the call sites are the source lines given in the  *)
(* map of definitions).                                                    *)
(*                                                                         *)
(* Numbers.  Data values are integers.  Least-squares coefficients are     *)
(* exact rationals [n, d].  Link-function values are decimal floating      *)
(* point numbers with the exponent range of IEEE binary64, so that         *)
(* underflow to zero happens where it does in the notebook's arithmetic.   *)
(***************************************************************************)
EXTENDS Integers, Sequences, FiniteSets, TLC

\* ---------------------------------------------------------------- bounds
MaxRows == 3
MaxSpread == 1

\* ------------------------------------------------------------ arithmetic
Abs(a) == IF a < 0 THEN -a ELSE a

Sign(a) == IF a > 0 THEN 1 ELSE IF a < 0 THEN -1 ELSE 0

RECURSIVE Gcd(_, _)
Gcd(a, b) == IF b = 0 THEN Abs(a) ELSE Gcd(b, a % Abs(b))

\* the rational n/d in lowest terms with a positive denominator
Rat(n, d) ==
  LET g == Gcd(n, d)
      s == IF d < 0 THEN -1 ELSE 1
  IN  [n |-> s * (n \div g), d |-> s * (d \div g)]

RInt(a) == [n |-> a, d |-> 1]

RAdd(a, b) ==
  LET g == Gcd(a.d, b.d)
  IN  Rat(a.n * (b.d \div g) + b.n * (a.d \div g), (a.d \div g) * b.d)

RMul(a, b) ==
  LET g1 == Gcd(a.n, b.d)
      g2 == Gcd(b.n, a.d)
  IN  IF a.n = 0 \/ b.n = 0 THEN [n |-> 0, d |-> 1]
      ELSE Rat((a.n \div g1) * (b.n \div g2), (a.d \div g2) * (b.d \div g1))

RNeg(a) == [n |-> -a.n, d |-> a.d]

RLess(a, b) == a.n * b.d < b.n * a.d

RECURSIVE SumSeq(_)
SumSeq(s) == IF s = <<>> THEN 0 ELSE Head(s) + SumSeq(Tail(s))

\* ---------------------------------------------------------- float values
\* A double is modelled as sign * m * 10^e with a four-digit m; the range
\* of the exponent is that of binary64: a magnitude below the smallest
\* subnormal 4.941e-324 is zero, one above 1.797e308 is inf.
mant_lo == 1000
mant_hi == 10000
dbl_min_m == 4941
dbl_min_e == -327
dbl_max_m == 1797
dbl_max_e == 305

FZero == [k |-> "num", s |-> 0, m |-> 0, e |-> 0]

FNaN == [k |-> "nan", s |-> 0, m |-> 0, e |-> 0]

FInf(sg) == [k |-> "inf", s |-> sg, m |-> 0, e |-> 0]

\* the magnitude m * 10^e with m brought to four digits, the last one rounded
RECURSIVE FNormMag(_, _)
FNormMag(m, e) ==
  IF m = 0 THEN <<0, 0>>
  ELSE IF m >= 1000 * mant_hi THEN FNormMag(m \div 1000, e + 3)
  ELSE IF m >= 10 * mant_hi THEN FNormMag(m \div 10, e + 1)
  ELSE IF m >= mant_hi THEN FNormMag((m + 5) \div 10, e + 1)
  ELSE IF m < 10 THEN FNormMag(m * 1000, e - 3)
  ELSE IF m < mant_lo THEN FNormMag(m * 10, e - 1)
  ELSE <<m, e>>

\* overflow to inf, underflow to zero
FRange(sg, r) ==
  IF r[1] = 0 \/ sg = 0 THEN FZero
  ELSE IF r[2] > dbl_max_e \/ (r[2] = dbl_max_e /\ r[1] > dbl_max_m) THEN FInf(sg)
  ELSE IF r[2] < dbl_min_e \/ (r[2] = dbl_min_e /\ r[1] < dbl_min_m) THEN FZero
  ELSE [k |-> "num", s |-> sg, m |-> r[1], e |-> r[2]]

\* round to four digits, then the range
FMake(sg, m, e) == FRange(sg, FNormMag(m, e))

FInt(a) == FMake(Sign(a), Abs(a), 0)

FMul(a, b) ==
  IF a.k = "nan" \/ b.k = "nan" THEN FNaN
  ELSE IF a.k = "inf" \/ b.k = "inf"
       THEN IF a.s * b.s = 0 THEN FNaN ELSE FInf(a.s * b.s)
  ELSE FMake(a.s * b.s, a.m * b.m, a.e + b.e)

FDiv(a, b) ==
  IF a.k = "nan" \/ b.k = "nan" THEN FNaN
  ELSE IF a.k = "inf" THEN (IF b.k = "inf" THEN FNaN
                            ELSE FInf(IF b.s = 0 THEN a.s ELSE a.s * b.s))
  ELSE IF b.k = "inf" THEN FZero
  ELSE IF b.s = 0 THEN (IF a.s = 0 THEN FNaN ELSE FInf(a.s))
  ELSE FMake(a.s * b.s, (a.m * 100000) \div b.m, a.e - b.e - 5)

RECURSIVE Pow10(_)
Pow10(d) == IF d = 0 THEN 1 ELSE 10 * Pow10(d - 1)

FAdd(a, b) ==
  IF a.k = "nan" \/ b.k = "nan" THEN FNaN
  ELSE IF a.k = "inf" THEN (IF b.k = "inf" /\ b.s # a.s THEN FNaN ELSE a)
  ELSE IF b.k = "inf" THEN b
  ELSE IF a.s = 0 THEN b
  ELSE IF b.s = 0 THEN a
  ELSE LET hi == IF a.e >= b.e THEN a ELSE b
           lo == IF a.e >= b.e THEN b ELSE a
           d == hi.e - lo.e
       IN  IF d > 5 THEN hi
           ELSE LET v == hi.s * hi.m * Pow10(d) + lo.s * lo.m
                IN  FMake(Sign(v), Abs(v), lo.e)

FRat(r) == FDiv(FInt(r.n), FInt(r.d))

FSign(a) == a.s

\* np.exp: e^z for the rational z, as e^floor(z) * e^(z - floor(z))
exp_terms == 10
exp_scale == 1000000
e_m == 2718
e_inv_m == 3679

FSquare(a) == FMul(a, a)

RECURSIVE FPow(_, _)
FPow(b, k) ==
  IF k = 0 THEN FInt(1)
  ELSE IF k % 2 = 0 THEN FSquare(FPow(b, k \div 2))
  ELSE FMul(FSquare(FPow(b, k \div 2)), b)

\* e^(n/d) for 0 <= n/d < 1 by its power series, in units of 1/exp_scale
RECURSIVE ExpSeries(_, _, _, _)
ExpSeries(n, d, j, term) ==
  IF j > exp_terms \/ term = 0 THEN 0
  ELSE term + ExpSeries(n, d, j + 1, (term * n) \div (d * j))

np_exp(z) ==
  LET fl == z.n \div z.d
      fr == Rat(z.n - fl * z.d, z.d)
      ip == IF fl >= 0 THEN FPow(FMake(1, e_m, -3), fl)
                       ELSE FPow(FMake(1, e_inv_m, -4), -fl)
  IN  FMul(ip, FMake(1, ExpSeries(fr.n, fr.d, 1, exp_scale), -6))

FNeg(a) == [a EXCEPT !.s = 0 - a.s]

FSub(a, b) == FAdd(a, FNeg(b))

FAbs(a) == [a EXCEPT !.s = a.s * a.s]

FLess(a, b) == FSub(a, b).s < 0

\* the integer part, towards zero, of the magnitude of a float below 10^6
FTrunc(a) == IF a.e >= 0 THEN a.m * Pow10(a.e)
             ELSE IF a.e < -4 THEN 0 ELSE a.m \div Pow10(0 - a.e)

\* 1 + t/j * (1 + t/(j+1) * (...)): the power series of e^t from term j on
RECURSIVE ExpTail(_, _)
ExpTail(t, j) ==
  IF j > exp_terms THEN FInt(1)
  ELSE FAdd(FInt(1), FMul(FDiv(t, FInt(j)), ExpTail(t, j + 1)))

\* np.exp of a float: e^floor(z) * e^(z - floor(z))
np_exp_float(z) ==
  IF z.k = "nan" THEN FNaN
  ELSE IF z.k = "inf" THEN (IF z.s > 0 THEN FInf(1) ELSE FZero)
  ELSE IF z.s = 0 THEN FInt(1)
  ELSE IF z.e > 2 THEN (IF z.s > 0 THEN FInf(1) ELSE FZero)
  ELSE LET t == FTrunc(z)
           fl == IF z.s > 0 THEN t
                 ELSE IF FSub(FAbs(z), FInt(t)).s = 0 THEN 0 - t ELSE 0 - t - 1
           ip == IF fl >= 0 THEN FPow(FMake(1, e_m, -3), fl)
                            ELSE FPow(FMake(1, e_inv_m, -4), 0 - fl)
       IN  FMul(ip, ExpTail(FSub(z, FInt(fl)), 1))

\* ------------------------------------------------------------------ data
\* A cell of the table is <<v>> (a value) or <<>> (missing, NaN).
Cell(vals) == {<<>>} \cup {<<v>> : v \in vals}

Row(fw, sp) == [favwin |-> fw, spread |-> sp]

RowsOf(fws, sps) == {Row(fw, sp) : fw \in fws, sp \in sps}

Tables(rows, maxlen) == UNION {[1..k -> rows] : k \in 1..maxlen}

IsMissing(r) == r.favwin = <<>> \/ r.spread = <<>>

HasMissing(data) == \E i \in 1..Len(data) : IsMissing(data[i])

\* ------------------------------------------------- design matrix builder
\* the formula interface drops every row with a missing value in a
\* variable of the formula, keeps the order of the others
handle_formula_data_fillna(data) ==
  [i \in 1..Len(data) |->
     Row(IF data[i].favwin = <<>> THEN <<0>> ELSE data[i].favwin,
         IF data[i].spread = <<>> THEN <<0>> ELSE data[i].spread)]

handle_formula_data(data) == SelectSeq(data, LAMBDA r : ~IsMissing(r))

endog(rows) == [i \in 1..Len(rows) |-> rows[i].favwin[1]]

\* 'favwin ~ spread': the constant first, then the regressor
exog(rows) == [i \in 1..Len(rows) |-> <<1, rows[i].spread[1]>>]

XtX(X, a, b) == SumSeq([i \in 1..Len(X) |-> X[i][a] * X[i][b]])

Xty(X, yv, a) == SumSeq([i \in 1..Len(X) |-> X[i][a] * yv[i]])

Det(X) == XtX(X, 1, 1) * XtX(X, 2, 2) - XtX(X, 1, 2) * XtX(X, 2, 1)

\* ------------------------------------------------------------------- OLS
\* least squares by the pseudo-inverse: (X'X)^-1 X'y when X'X is
\* invertible, else the minimum-norm least-squares solution, which for the
\* rank-one design (all rows equal) is X'y / trace(X'X)
ols_params_inv(X, yv) ==
  IF Det(X) # 0
  THEN << Rat(XtX(X, 2, 2) * Xty(X, yv, 1) - XtX(X, 1, 2) * Xty(X, yv, 2), Det(X)),
          Rat(XtX(X, 1, 1) * Xty(X, yv, 2) - XtX(X, 2, 1) * Xty(X, yv, 1), Det(X)) >>
  ELSE << RInt(0), RInt(0) >>

ols_params_origin(X, yv) ==
  << RInt(0), Rat(Xty(X, yv, 2), IF XtX(X, 2, 2) = 0 THEN 1 ELSE XtX(X, 2, 2)) >>

ols_params(X, yv) ==
  IF Det(X) # 0
  THEN << Rat(XtX(X, 2, 2) * Xty(X, yv, 1) - XtX(X, 1, 2) * Xty(X, yv, 2), Det(X)),
          Rat(XtX(X, 1, 1) * Xty(X, yv, 2) - XtX(X, 2, 1) * Xty(X, yv, 1), Det(X)) >>
  ELSE << Rat(Xty(X, yv, 1), XtX(X, 1, 1) + XtX(X, 2, 2)),
          Rat(Xty(X, yv, 2), XtX(X, 1, 1) + XtX(X, 2, 2)) >>

\* X b, one value per row of the design, as it comes
Clip01(r) == IF r.n < 0 THEN RInt(0) ELSE IF r.n > r.d THEN RInt(1) ELSE r

predict_clipped(X, params) ==
  [i \in 1..Len(X) |-> Clip01(RAdd(RMul(RInt(X[i][1]), params[1]),
                                   RMul(RInt(X[i][2]), params[2])))]

predict(X, params) ==
  [i \in 1..Len(X) |-> RAdd(RMul(RInt(X[i][1]), params[1]),
                            RMul(RInt(X[i][2]), params[2]))]

NoResult == [fitted |-> FALSE, model |-> "none", exog |-> <<>>, endog |-> <<>>,
             params |-> <<>>, fittedvalues |-> <<>>]

\* smf.ols / smf.probit / smf.logit ('favwin ~ spread', data=...): the model
\* object, which holds its own design matrix and outcome vector
from_formula(data) ==
  LET rows == handle_formula_data(data)
  IN  [exog |-> exog(rows), endog |-> endog(rows)]

\* .fit() of an OLS model object
ols_fit_model(m) ==
  LET b == ols_params(m.exog, m.endog)
  IN  [fitted |-> TRUE, model |-> "ols", exog |-> m.exog, endog |-> m.endog,
       params |-> b, fittedvalues |-> predict(m.exog, b)]

ols_fit(data) == ols_fit_model(from_formula(data))

\* ------------------------------------------------ probit and logit fits
\* the result object of smf.probit(...).fit() / smf.logit(...).fit() with
\* the coefficients b; fittedvalues is the linear index X b
discrete_result_model(model, m, b) ==
  [fitted |-> TRUE, model |-> model, exog |-> m.exog, endog |-> m.endog,
   params |-> b, fittedvalues |-> predict(m.exog, b)]

discrete_result(model, data, b) == discrete_result_model(model, from_formula(data), b)

\* all outcomes equal, or the outcomes split by a threshold on spread:
\* the tables on which the fitted probabilities can match the outcomes
perfect_pred_possible(X, yv) ==
  LET ones == {i \in 1..Len(X) : yv[i] = 1}
      zeros == {i \in 1..Len(X) : yv[i] = 0}
  IN  \/ ones = {} \/ zeros = {}
      \/ \A i \in zeros, j \in ones : X[i][2] < X[j][2]
      \/ \A i \in zeros, j \in ones : X[i][2] > X[j][2]

RECURSIVE IsPow2(_)
IsPow2(c) == IF c = 1 THEN TRUE ELSE IF c < 1 \/ c % 2 = 1 THEN FALSE ELSE IsPow2(c \div 2)

\* a pseudo-inverse in place of the inverse: never an exception
linalg_pinv(X) == {"ok"}

\* np.linalg.inv(-Hessian), the Hessian X'WX of the design X computed in
\* double precision: exactly singular, hence LinAlgError, when the spread
\* column is zero or a power-of-two multiple of the constant column (a
\* duplicate of it included); for another constant spread the rounding of
\* the products decides between LinAlgError and an inverse
linalg_inv(X) ==
  IF Det(X) # 0 THEN {"ok"}
  ELSE IF X[1][2] = 0 \/ IsPow2(Abs(X[1][2])) THEN {"LinAlgError"}
  ELSE {"ok", "LinAlgError"}

\* ------------------------------------------------------ marginal effects
sqrt_2pi_m == 2507

\* scipy.stats.norm.pdf(z, 0, 1) = exp(-z**2/2) / sqrt(2*pi)
norm_pdf(z) ==
  FDiv(np_exp(Rat(-(z.n * z.n), 2 * z.d * z.d)), FMake(1, sqrt_2pi_m, -3))

\* scipy.stats.norm.cdf(z, 0, 1): for |z| < 2 by the series
\* 1/2 + pdf(z) * sum_k z^(2k+1) / (2k+1)!!, beyond by the tail
\* pdf(z) / (|z| + 1/(|z| + 2/(|z| + 3/...))), which is 1 minus it for z > 0
cdf_terms == 12
cdf_tail_from == 2

RECURSIVE CdfSeries(_, _, _, _)
CdfSeries(z2, k, term, acc) ==
  IF k > cdf_terms \/ term.s = 0 \/ acc.k # "num" THEN acc
  ELSE CdfSeries(z2, k + 1, FDiv(FMul(term, z2), FInt(2 * k + 3)), FAdd(acc, term))

\* the continued fraction from its innermost level j outwards
RECURSIVE CdfFraction(_, _, _)
CdfFraction(af, j, inner) ==
  IF j = 0 \/ inner.k # "num" THEN inner
  ELSE CdfFraction(af, j - 1, FAdd(af, FDiv(FInt(j), inner)))

\* norm.pdf and norm.cdf of a float
norm_pdf_float(z) ==
  FDiv(np_exp_float(FNeg(FDiv(FSquare(z), FInt(2)))), FMake(1, sqrt_2pi_m, -3))

norm_cdf_tail(a) == FDiv(norm_pdf_float(a), CdfFraction(a, cdf_terms, a))

norm_cdf_float(z) ==
  IF z.k = "nan" THEN FNaN
  ELSE IF z.k = "inf" THEN (IF z.s > 0 THEN FInt(1) ELSE FZero)
  ELSE IF ~FLess(FAbs(z), FInt(cdf_tail_from))
       THEN IF z.s > 0 THEN FSub(FInt(1), norm_cdf_tail(z))
                       ELSE norm_cdf_tail(FAbs(z))
  ELSE FAdd(FMake(1, 5, -1), FMul(norm_pdf_float(z), CdfSeries(FSquare(z), 0, z, FZero)))

norm_cdf(z) == norm_cdf_float(FRat(z))

\* Logit.pdf(X) = np.exp(-X) / (1 + np.exp(-X))**2
logit_pdf_of(t) == FDiv(t, FSquare(FAdd(FInt(1), t)))

logit_pdf(z) == logit_pdf_of(np_exp(RNeg(z)))

link_pdf(model, z) == IF model = "probit" THEN norm_pdf(z) ELSE logit_pdf(z)

Dot(row, b) == RAdd(RMul(row[1], b[1]), RMul(row[2], b[2]))

exog_mean(X) ==
  << Rat(SumSeq([i \in 1..Len(X) |-> X[i][1]]), Len(X)),
     Rat(SumSeq([i \in 1..Len(X) |-> X[i][2]]), Len(X)) >>

\* the effects at the rows given, one row of effects per row, one entry
\* per column of the design
derivative_exog(res, rows) ==
  [i \in 1..Len(rows) |->
     [j \in 1..2 |-> FMul(link_pdf(res.model, Dot(rows[i], res.params)),
                         FRat(res.params[j]))]]

FSum(fs) ==
  LET RECURSIVE go(_)
      go(k) == IF k = 0 THEN FZero ELSE FAdd(go(k - 1), fs[k])
  IN  go(Len(fs))

\* at='overall': the average of the effects at the observations
get_margeff_overall(res) ==
  LET eff == derivative_exog(res, [i \in 1..Len(res.exog) |->
                                     <<RInt(res.exog[i][1]), RInt(res.exog[i][2])>>])
  IN  << FDiv(FSum([i \in 1..Len(eff) |-> eff[i][2]]), FInt(Len(eff))) >>

\* the constant is not dropped
get_margeff_const(res) ==
  LET eff == derivative_exog(res, <<exog_mean(res.exog)>>)
  IN  << eff[1][1] >>

\* res.get_margeff('mean'): the effects at the mean row of the design,
\* the entry of the constant removed
get_margeff(res) ==
  LET eff == derivative_exog(res, <<exog_mean(res.exog)>>)
  IN  << eff[1][2] >>

\* y = norm.pdf(res_probit.fittedvalues,0,1)*res_probit.params.spread
margeff_curve(res) ==
  [i \in 1..Len(res.fittedvalues) |->
     FMul(norm_pdf(res.fittedvalues[i]), FRat(res.params[2]))]

\* np.mean(vegas['spread']): the mean of the values present
np_mean(col) ==
  LET present == SelectSeq(col, LAMBDA c : c # <<>>)
  IN  Rat(SumSeq([i \in 1..Len(present) |-> present[i][1]]), Len(present))

\* ================================================================= state
VARIABLES
  pc,          \* the cell the run is at
  raised,      \* the exception that stopped the run, or "none"
  vegas,       \* the DataFrame read from pntsprd.dta
  res_ols,     \* result of the linear probability fit
  ax,          \* what the last scatter call drew
  p, x, y,     \* p and x of the line of best fit; y, the last list plotted
  res_probit,  \* result of the probit fit
  res_logit,   \* result of the logit fit
  margeff,     \* the marginal effects last computed
  avg_spread,  \* np.mean(vegas['spread'])
  \* one call of .fit(), step by step
  f_pc,        \* where the call is
  f_model,     \* "probit" or "logit"
  f_data,      \* the table the model was built from
  iterations,  \* iterations of the Newton loop
  oldparams,   \* oldparams of the Newton loop
  newparams,   \* newparams of the Newton loop
  mle_retvals, \* retvals of the optimizer
  fit_result,  \* what .fit() returns
  models,      \* the model object each fit call built from its formula
  pred_probit, \* predicted probabilities of the probit fit
  pred_logit   \* predicted probabilities of the logit fit

olsVars == <<vegas, res_ols, ax, p, x, y>>

mleVars == <<res_probit, res_logit, margeff, avg_spread>>

fitVars == <<f_pc, f_model, f_data, iterations, oldparams, newparams, mle_retvals, fit_result>>

predVars == <<pred_probit, pred_logit>>

vars == <<pc, raised, olsVars, mleVars, fitVars, models, predVars>>

\* a further bound: a spread far from the others
FarSpread == 80

Spreads == (0..MaxSpread) \cup {FarSpread}

AllRows == RowsOf(Cell({0, 1}), Cell(Spreads))

\* the coefficients a fit can return: a negative intercept, and one slope
\* of each sign
ParamGrid == {<<RInt(-1), Rat(b, 2)>> : b \in {-1, 0, 1}}

\* ------------------------------------------ the linear probability cells
range_stop == 35

NoRetvals == [set |-> FALSE, iterations |-> 0, warnflag |-> 0, converged |-> FALSE]

NoFit == [fitted |-> FALSE, params |-> <<>>, mle_retvals |-> NoRetvals]

\* the fit calls of the notebook, and the stage each is at when they run
\* side by side: "new", "built" (model object made), "returned", or the
\* exception it raised
Fitters == {"ols", "probit", "logit"}

NoModels == [f \in Fitters |-> [stage |-> "new", exog |-> <<>>, endog |-> <<>>]]

\* the notebook before its first cell
NotebookInit ==
  /\ pc = "read_stata"
  /\ raised = "none"
  /\ vegas = <<>>
  /\ res_ols = NoResult
  /\ ax = <<>>
  /\ p = <<>>
  /\ x = <<>>
  /\ y = <<>>
  /\ res_probit = NoResult
  /\ res_logit = NoResult
  /\ margeff = <<>>
  /\ avg_spread = <<>>
  /\ models = NoModels
  /\ pred_probit = <<>>
  /\ pred_logit = <<>>

\* no call of .fit() under way
FitIdle ==
  /\ iterations = 0
  /\ oldparams = <<>>
  /\ newparams = <<>>
  /\ mle_retvals = NoRetvals
  /\ fit_result = NoFit

Init ==
  /\ NotebookInit
  /\ f_pc = "idle"
  /\ f_model = "none"
  /\ f_data = <<>>
  /\ FitIdle

\* vegas = pd.read_stata('./Data/pntsprd.dta')
read_stata ==
  /\ pc = "read_stata"
  /\ \E t \in Tables(AllRows, MaxRows) :
       /\ handle_formula_data(t) # <<>>
       /\ vegas' = t
  /\ pc' = "ols"
  /\ UNCHANGED <<raised, res_ols, ax, p, x, y, mleVars, fitVars, models, predVars>>

\* res_ols = smf.ols('favwin ~ spread', data=vegas).fit()
fit_ols ==
  /\ pc = "ols"
  /\ res_ols' = ols_fit(vegas)
  /\ pc' = "plot_ols"
  /\ UNCHANGED <<raised, vegas, ax, p, x, y, mleVars, fitVars, models, predVars>>

\* ax.scatter(xs, ys, ...): the two series must have the same size
scatter(xs, ys) ==
  IF Len(xs) = Len(ys)
  THEN [ok |-> TRUE, xs |-> xs, ys |-> ys]
  ELSE [ok |-> FALSE, xs |-> <<>>, ys |-> <<>>]

spread_column(data) == [i \in 1..Len(data) |-> data[i].spread]

\* ax.scatter(vegas['spread'], res_ols.fittedvalues, ...)
plot_ols ==
  /\ pc = "plot_ols"
  /\ LET drawn == scatter(spread_column(vegas), res_ols.fittedvalues)
     IN  IF drawn.ok
         THEN /\ ax' = drawn
              /\ pc' = "probit"
              /\ UNCHANGED raised
         ELSE /\ raised' = "ValueError"
              /\ pc' = "stopped"
              /\ UNCHANGED ax
  /\ UNCHANGED <<vegas, res_ols, p, x, y, mleVars, fitVars, models, predVars>>

\* ------------------------------------------------------ the probit cells
\* what a fit call leaves: a result with some coefficients, or an exception
fit_outcomes_model(model, m) ==
  LET results == IF "ok" \in linalg_inv(m.exog)
                 THEN {[raised |-> "none", res |-> discrete_result_model(model, m, b)] :
                         b \in ParamGrid}
                 ELSE {}
      singular == IF "LinAlgError" \in linalg_inv(m.exog)
                  THEN {[raised |-> "LinAlgError", res |-> NoResult]} ELSE {}
      perfect == IF perfect_pred_possible(m.exog, m.endog)
                 THEN {[raised |-> "PerfectSeparationError", res |-> NoResult]} ELSE {}
  IN  results \cup singular \cup perfect

fit_outcomes(model, data) == fit_outcomes_model(model, from_formula(data))

\* res_probit = smf.probit('favwin ~ spread', data=vegas).fit()
fit_probit ==
  /\ pc = "probit"
  /\ \E o \in fit_outcomes("probit", vegas) :
       /\ res_probit' = o.res
       /\ raised' = o.raised
       /\ pc' = IF o.raised = "none" THEN "margeff_probit" ELSE "stopped"
  /\ UNCHANGED <<olsVars, res_logit, margeff, avg_spread, fitVars, models, predVars>>

\* a get_margeff that also keeps the vector in the result it came from
get_margeff_probit_stored ==
  /\ pc = "margeff_probit"
  /\ margeff' = get_margeff(res_probit)
  /\ res_probit' = [fitted |-> TRUE, model |-> res_probit.model,
                    exog |-> res_probit.exog, endog |-> res_probit.endog,
                    params |-> res_probit.params,
                    fittedvalues |-> res_probit.fittedvalues,
                    margeff |-> margeff']
  /\ pc' = "plot_margeff"
  /\ UNCHANGED <<raised, olsVars, res_logit, avg_spread, fitVars, models, predVars>>

\* margeff = res_probit.get_margeff('mean')
get_margeff_probit ==
  /\ pc = "margeff_probit"
  /\ margeff' = get_margeff(res_probit)
  /\ pc' = "plot_margeff"
  /\ UNCHANGED <<raised, olsVars, res_probit, res_logit, avg_spread, fitVars, models, predVars>>

\* y = norm.pdf(res_probit.fittedvalues,0,1)*res_probit.params.spread
\* avg_spread = np.mean(vegas['spread']); ax.scatter(vegas['spread'],y, ...)
plot_margeff ==
  /\ pc = "plot_margeff"
  /\ y' = margeff_curve(res_probit)
  /\ avg_spread' = np_mean(spread_column(vegas))
  /\ ax' = scatter(spread_column(vegas), y')
  /\ pc' = "line"
  /\ UNCHANGED <<raised, vegas, res_ols, p, x, res_probit, res_logit, margeff, fitVars, models, predVars>>

\* p = res_ols.params; x = range(0,35); y = [p.Intercept + p.spread*i for i in x]
best_fit_line(params) ==
  [k \in 1..range_stop |-> RAdd(params[1], RMul(params[2], RInt(k - 1)))]

plot_line ==
  /\ pc = "line"
  /\ p' = res_ols.params
  /\ x' = [k \in 1..range_stop |-> k - 1]
  /\ y' = best_fit_line(res_ols.params)
  /\ pc' = "logit"
  /\ UNCHANGED <<raised, vegas, res_ols, ax, mleVars, fitVars, models, predVars>>

\* ------------------------------------------------------- the logit cells
\* res_logit = smf.logit('favwin ~ spread', data=vegas).fit()
fit_logit ==
  /\ pc = "logit"
  /\ \E o \in fit_outcomes("logit", vegas) :
       /\ res_logit' = o.res
       /\ raised' = o.raised
       /\ pc' = IF o.raised = "none" THEN "margeff_logit" ELSE "stopped"
  /\ UNCHANGED <<olsVars, res_probit, margeff, avg_spread, fitVars, models, predVars>>

\* margeff = res_logit.get_margeff('mean')
get_margeff_logit ==
  /\ pc = "margeff_logit"
  /\ margeff' = get_margeff(res_logit)
  /\ pc' = "done"
  /\ UNCHANGED <<raised, olsVars, res_probit, res_logit, avg_spread, fitVars, models, predVars>>

Next ==
  \/ read_stata \/ fit_ols \/ plot_ols
  \/ fit_probit \/ get_margeff_probit \/ plot_margeff \/ plot_line
  \/ fit_logit \/ get_margeff_logit

Spec == Init /\ [][Next]_vars

\* ==================================================== one call of .fit()
\* smf.probit(...).fit() and smf.logit(...).fit() step by step: Newton's
\* method (method='newton', the default) from start_params = 0, then the
\* inverse of the Hessian for the covariance.  The coefficients are in
\* units of tol; the iterates are the environment's choice.
maxiter == 35
tol == 1

\* further bounds: a spread that is no power of two, and a coefficient far
\* from zero
OddSpread == 3
FarCoef == 20000

Links == {"probit", "logit"}

FitTables == {<<r1, r2>> : r1, r2 \in RowsOf({<<0>>, <<1>>}, {<<1>>, <<OddSpread>>})}

IterGrid ==
  {<<a, b>> : a \in {0, FarCoef}, b \in {0, FarCoef - 2 * tol, FarCoef - tol, FarCoef}}

start_params == <<0, 0>>

\* oldparams = np.inf, a scalar
np_inf == <<>>

\* the log-likelihood by its second-order expansion at its maximum, here
\* at <<FarCoef, FarCoef>>, in units of tol^2
llf(b) == 0 - ((b[1] - FarCoef) * (b[1] - FarCoef) + (b[2] - FarCoef) * (b[2] - FarCoef))

\* np.any(np.abs(newparams - oldparams) > tol)
params_moved(new, old) ==
  IF old = np_inf THEN TRUE ELSE \E j \in 1..Len(new) : Abs(new[j] - old[j]) > tol

\* the cap tested one iteration late
newton_continue_late(its, new, old) == its <= maxiter /\ params_moved(new, old)

\* while iterations < maxiter and np.any(np.abs(newparams - oldparams) > tol)
newton_continue(its, new, old) == its < maxiter /\ params_moved(new, old)

\* converged whatever the warnflag
newton_retvals_converged(its) ==
  [set |-> TRUE, iterations |-> its, warnflag |-> IF its = maxiter THEN 1 ELSE 0,
   converged |-> TRUE]

\* warnflag = 1 if iterations == maxiter, else 0; converged = not warnflag
newton_retvals(its) ==
  [set |-> TRUE, iterations |-> its, warnflag |-> IF its = maxiter THEN 1 ELSE 0,
   converged |-> its # maxiter]

FitInit ==
  /\ NotebookInit
  /\ f_pc = "start"
  /\ f_model \in Links
  /\ f_data \in FitTables
  /\ FitIdle

\* iterations = 0; oldparams = np.inf; newparams = np.asarray(start_params)
fit_start ==
  /\ f_pc = "start"
  /\ iterations' = 0
  /\ oldparams' = np_inf
  /\ newparams' = start_params
  /\ f_pc' = "loop"
  /\ UNCHANGED <<models, predVars, pc, raised, olsVars, mleVars, f_model, f_data, mle_retvals, fit_result>>

\* the body of the loop: oldparams = newparams; newparams = oldparams -
\* solve(H, score(oldparams)); callback(newparams), which is
\* _check_perfect_pred and may raise; iterations += 1
newton_step ==
  /\ f_pc = "loop"
  /\ newton_continue(iterations, newparams, oldparams)
  /\ oldparams' = newparams
  /\ \E b \in IterGrid : newparams' = b
  /\ \/ /\ iterations' = iterations + 1
        /\ UNCHANGED <<f_pc, raised>>
     \/ /\ perfect_pred_possible(exog(handle_formula_data(f_data)),
                                 endog(handle_formula_data(f_data)))
        /\ raised' = "PerfectSeparationError"
        /\ f_pc' = "raised"
        /\ UNCHANGED iterations
  /\ UNCHANGED <<models, predVars, pc, olsVars, mleVars, f_model, f_data, mle_retvals, fit_result>>

\* the loop left: warnflag and converged
newton_exit ==
  /\ f_pc = "loop"
  /\ ~newton_continue(iterations, newparams, oldparams)
  /\ mle_retvals' = newton_retvals(iterations)
  /\ f_pc' = "cov"
  /\ UNCHANGED <<models, predVars, pc, raised, olsVars, mleVars, f_model, f_data, iterations, oldparams,
                 newparams, fit_result>>

\* Hinv = np.linalg.inv(-retvals['Hessian']) / nobs, then the result
fit_return ==
  /\ f_pc = "cov"
  /\ \E o \in linalg_inv(exog(handle_formula_data(f_data))) :
       IF o = "ok"
       THEN /\ fit_result' = [fitted |-> TRUE, params |-> newparams,
                              mle_retvals |-> mle_retvals]
            /\ f_pc' = "returned"
            /\ UNCHANGED raised
       ELSE /\ raised' = o
            /\ f_pc' = "raised"
            /\ UNCHANGED fit_result
  /\ UNCHANGED <<models, predVars, pc, olsVars, mleVars, f_model, f_data, iterations, oldparams, newparams,
                 mle_retvals>>

FitNext == fit_start \/ newton_step \/ newton_exit \/ fit_return

SpecFit == FitInit /\ [][FitNext]_vars

\* ============================================ one call of .fit(), computed
\* the same call with the Newton iterates computed from the data, in the
\* four-digit floats, on a table of five rows and the tables that differ
\* from it in one outcome
toy_endog == <<1, 0, 1, 1, 0>>

toy_exog == <<2, -1, 3, 1, -2>>

ToyTable == <<>> \o [i \in 1..Len(toy_endog) |-> Row(<<toy_endog[i]>>, <<toy_exog[i]>>)]

OneFlipped(k) ==
  <<>> \o [i \in 1..Len(toy_endog) |->
             Row(<<IF i = k THEN 1 - toy_endog[i] ELSE toy_endog[i]>>, <<toy_exog[i]>>)]

ToyTables == {ToyTable} \cup {OneFlipped(k) : k \in 1..Len(toy_endog)}

\* tol = 1e-8
tol_float == FMake(1, 1, -8)

\* ridge_factor = 1e-10
ridge_factor == FMake(1, 1, -10)

\* rounding leaves the four-digit iterates a few units of their last digit
\* apart at a maximum: a change of a coefficient below 1e-3 is not told
\* from no change
resolution == FMake(1, 1, -3)

\* Logit for one row with linear index z and outcome yv: cdf =
\* 1/(1+exp(-z)), score X'(y - cdf), Hessian -X'diag(cdf(1-cdf))X.  The
\* row's weight in the score is r, in the Hessian w, and miss is
\* |cdf(z) - yv|; cdf and 1 - cdf are each formed from e = exp(-|z|), which
\* keeps the digits that y - cdf has in binary64.
logit_row(e, z, yv) ==
  LET miss == IF (yv = 1) = (z.s >= 0) THEN FDiv(e, FAdd(FInt(1), e))
                                      ELSE FDiv(FInt(1), FAdd(FInt(1), e))
  IN  [r |-> IF yv = 1 THEN miss ELSE FNeg(miss),
       w |-> FDiv(e, FSquare(FAdd(FInt(1), e))),
       miss |-> miss]

\* Probit: q = 2y-1, L = q*pdf(q*z)/cdf(q*z), score X'L, Hessian
\* -X'diag(L(L+z))X; |cdf(z) - yv| is cdf(-q*z)
probit_row(L, z, yv) ==
  [r |-> L, w |-> FMul(L, FAdd(L, z)), miss |-> norm_cdf_float(FMul(FInt(1 - 2 * yv), z))]

link_row(model, z, yv) ==
  IF model = "logit"
  THEN CHOOSE row \in {logit_row(e, z, yv) : e \in {np_exp_float(FNeg(FAbs(z)))}} : TRUE
  ELSE CHOOSE row \in
         {probit_row(L, z, yv) :
            L \in {FDiv(FMul(FInt(2 * yv - 1), norm_pdf_float(z)),
                        norm_cdf_float(FMul(FInt(2 * yv - 1), z)))}} : TRUE

linear_index(X, b) ==
  <<>> \o [i \in 1..Len(X) |-> FAdd(FMul(FInt(X[i][1]), b[1]), FMul(FInt(X[i][2]), b[2]))]

\* the rows of the score and of the Hessian of -loglike/nobs at b
link_rows(model, X, yv, b) ==
  <<>> \o [i \in 1..Len(X) |->
             CHOOSE row \in
               {[r |-> FDiv(lr.r, FInt(Len(X))), w |-> FDiv(lr.w, FInt(Len(X))),
                 miss |-> lr.miss] :
                  lr \in {link_row(model, linear_index(X, b)[i], yv[i])}} : TRUE]

\* _check_perfect_pred: np.allclose(cdf(X b) - endog, 0), within 1e-8
perfect_prediction(model, X, yv, b) ==
  \A i \in 1..Len(X) :
     \A row \in {link_row(model, linear_index(X, b)[i], yv[i])} :
        ~FLess(tol_float, row.miss)

\* solve(H, score) with the ridge on the diagonal of H: with A = X'WX/nobs,
\* H = A + ridge*I, the solution is (adj(A) + ridge*I) g / (det(A) +
\* ridge*trace(A) + ridge^2), where det(A) and adj(A) g are sums over pairs
\* of rows, which lose no digits
solve_pairs(X, rows) ==
  LET n == Len(X)
      I(k) == ((k - 1) \div n) + 1
      J(k) == ((k - 1) % n) + 1
      g0 == FSum([i \in 1..n |-> rows[i].r])
      g1 == FSum([i \in 1..n |-> FMul(rows[i].r, FInt(X[i][2]))])
      trace == FSum([i \in 1..n |-> FMul(rows[i].w, FInt(1 + X[i][2] * X[i][2]))])
      detA == FSum([k \in 1..(n * n) |->
                IF I(k) < J(k)
                THEN FMul(FMul(rows[I(k)].w, rows[J(k)].w),
                          FInt((X[I(k)][2] - X[J(k)][2]) * (X[I(k)][2] - X[J(k)][2])))
                ELSE FZero])
      det == FAdd(FAdd(detA, FMul(ridge_factor, trace)), FSquare(ridge_factor))
      n0 == FSum([k \in 1..(n * n) |->
                FMul(FMul(rows[I(k)].w, rows[J(k)].r),
                     FInt(X[I(k)][2] * (X[I(k)][2] - X[J(k)][2])))])
      n1 == FSum([k \in 1..(n * n) |->
                FMul(FMul(rows[I(k)].w, rows[J(k)].r), FInt(X[J(k)][2] - X[I(k)][2]))])
  IN  CHOOSE d \in {<<FDiv(FAdd(n0, FMul(ridge_factor, g0)), dt),
                      FDiv(FAdd(n1, FMul(ridge_factor, g1)), dt)>> : dt \in {det}} : TRUE

newton_direction(model, X, yv, b) ==
  CHOOSE d \in {solve_pairs(X, rows) : rows \in {link_rows(model, X, yv, b)}} : TRUE

\* np.any(np.abs(newparams - oldparams) > tol), a change below the
\* resolution of the floats taken as none
step_floor == IF FLess(tol_float, resolution) THEN resolution ELSE tol_float

\* a test of the change that takes a tenth for nothing
params_moved_tenth(new, old) ==
  IF old = np_inf THEN TRUE
  ELSE \E j \in 1..Len(new) : FLess(FMake(1, 1, -1), FAbs(FSub(new[j], old[j])))

params_moved_float(new, old) ==
  IF old = np_inf THEN TRUE
  ELSE \E j \in 1..Len(new) : FLess(step_floor, FAbs(FSub(new[j], old[j])))

ComputedInit ==
  /\ NotebookInit
  /\ f_pc = "start"
  /\ f_model \in Links
  /\ f_data \in ToyTables
  /\ FitIdle

\* iterations = 0; oldparams = np.inf; newparams = np.asarray(start_params)
fit_start_float ==
  /\ f_pc = "start"
  /\ iterations' = 0
  /\ oldparams' = np_inf
  /\ newparams' = <<FInt(start_params[1]), FInt(start_params[2])>>
  /\ f_pc' = "loop"
  /\ UNCHANGED <<models, predVars, pc, raised, olsVars, mleVars, f_model, f_data,
                 mle_retvals, fit_result>>

\* oldparams = newparams; newparams = oldparams - solve(H, score(oldparams));
\* callback(newparams): _check_perfect_pred, which on a perfect prediction
\* raises PerfectSeparationError or, in later versions of the library, only
\* warns; iterations += 1
newton_step_float ==
  /\ f_pc = "loop"
  /\ iterations < maxiter /\ params_moved_float(newparams, oldparams)
  /\ oldparams' = newparams
  /\ \E d \in {newton_direction(f_model, exog(handle_formula_data(f_data)),
                                  endog(handle_formula_data(f_data)), newparams)} :
       newparams' = <<FAdd(newparams[1], d[1]), FAdd(newparams[2], d[2])>>
  /\ \/ /\ iterations' = iterations + 1
        /\ UNCHANGED <<f_pc, raised>>
     \/ /\ perfect_prediction(f_model, exog(handle_formula_data(f_data)),
                               endog(handle_formula_data(f_data)), newparams')
        /\ raised' = "PerfectSeparationError"
        /\ f_pc' = "raised"
        /\ UNCHANGED iterations
  /\ UNCHANGED <<models, predVars, pc, olsVars, mleVars, f_model, f_data, mle_retvals,
                 fit_result>>

\* the loop left: warnflag and converged
newton_exit_float ==
  /\ f_pc = "loop"
  /\ ~(iterations < maxiter /\ params_moved_float(newparams, oldparams))
  /\ mle_retvals' = newton_retvals(iterations)
  /\ f_pc' = "cov"
  /\ UNCHANGED <<models, predVars, pc, raised, olsVars, mleVars, f_model, f_data,
                 iterations, oldparams, newparams, fit_result>>

ComputedNext == fit_start_float \/ newton_step_float \/ newton_exit_float \/ fit_return

SpecComputed == ComputedInit /\ [][ComputedNext]_vars

\* ======================================== the three fits run side by side
\* smf.ols(...).fit(), smf.probit(...).fit() and smf.logit(...).fit() on one
\* table, each as two steps (the model object from the formula, then its
\* .fit()), the steps of the three calls interleaved in every way
PairTables == {t \in {<<r1, r2>> : r1, r2 \in AllRows} : handle_formula_data(t) # <<>>}

SideBySideInit ==
  /\ pc = "fits"
  /\ raised = "none"
  /\ vegas \in PairTables
  /\ res_ols = NoResult
  /\ ax = <<>>
  /\ p = <<>>
  /\ x = <<>>
  /\ y = <<>>
  /\ res_probit = NoResult
  /\ res_logit = NoResult
  /\ margeff = <<>>
  /\ avg_spread = <<>>
  /\ models = NoModels
  /\ pred_probit = <<>>
  /\ pred_logit = <<>>
  /\ f_pc = "idle"
  /\ f_model = "none"
  /\ f_data = <<>>
  /\ FitIdle

\* the result variable a fit call assigns
result_of(f) ==
  CASE f = "ols" -> res_ols
    [] f = "probit" -> res_probit
    [] f = "logit" -> res_logit

\* a model object that changes the table it is built from: the rows with a
\* missing value are dropped from the table itself
build_model_inplace(f) ==
  /\ models[f].stage = "new"
  /\ models' = [models EXCEPT ![f] = [stage |-> "built",
                                      exog |-> from_formula(vegas).exog,
                                      endog |-> from_formula(vegas).endog]]
  /\ vegas' = handle_formula_data(vegas)
  /\ UNCHANGED <<pc, raised, res_ols, ax, p, x, y, mleVars, fitVars, predVars>>

\* smf.<model>('favwin ~ spread', data=vegas): the model object of one call
build_model(f) ==
  /\ models[f].stage = "new"
  /\ models' = [models EXCEPT ![f] = [stage |-> "built",
                                      exog |-> from_formula(vegas).exog,
                                      endog |-> from_formula(vegas).endog]]
  /\ UNCHANGED <<pc, raised, olsVars, mleVars, fitVars, predVars>>

\* res_ols = <model object>.fit()
fit_ols_model ==
  /\ models["ols"].stage = "built"
  /\ res_ols' = ols_fit_model(models["ols"])
  /\ models' = [models EXCEPT !["ols"].stage = "returned"]
  /\ UNCHANGED <<pc, raised, vegas, ax, p, x, y, mleVars, fitVars, predVars>>

\* res_probit = <model object>.fit() and res_logit = <model object>.fit();
\* an exception ends the call that raised it and leaves no result
fit_discrete_model(f) ==
  /\ models[f].stage = "built"
  /\ \E o \in fit_outcomes_model(f, models[f]) :
       /\ models' = [models EXCEPT ![f].stage =
                       IF o.raised = "none" THEN "returned" ELSE o.raised]
       /\ IF f = "probit"
          THEN res_probit' = o.res /\ UNCHANGED res_logit
          ELSE res_logit' = o.res /\ UNCHANGED res_probit
  /\ UNCHANGED <<pc, raised, olsVars, margeff, avg_spread, fitVars, predVars>>

SideBySideNext ==
  \/ \E f \in Fitters : build_model(f)
  \/ fit_ols_model
  \/ \E f \in {"probit", "logit"} : fit_discrete_model(f)

SpecSideBySide == SideBySideInit /\ [][SideBySideNext]_vars

\* ============================================== the cells run and re-run
\* the cells after the table is read, run top to bottom, and then the
\* cells of the marginal effects and of the predicted probabilities run
\* again in any order, each followed by the cells below it
favwin_column(data) == [i \in 1..Len(data) |-> data[i].favwin]

\* pred_probit = norm.cdf(res_probit.fittedvalues,0,1)
pred_probit_cell ==
  /\ pc = "pred_probit"
  /\ pred_probit' = [i \in 1..Len(res_probit.fittedvalues) |->
                       norm_cdf(res_probit.fittedvalues[i])]
  /\ pc' = "done"
  /\ UNCHANGED <<raised, olsVars, mleVars, fitVars, models, pred_logit>>

\* pred_logit = np.exp(res_logit.fittedvalues) /( 1+np.exp(res_logit.fittedvalues) )
logistic(z) == FDiv(np_exp(z), FAdd(FInt(1), np_exp(z)))

pred_logit_cell ==
  /\ pc = "pred_logit"
  /\ pred_logit' = [i \in 1..Len(res_logit.fittedvalues) |->
                      logistic(res_logit.fittedvalues[i])]
  /\ pc' = "final_plot"
  /\ UNCHANGED <<raised, olsVars, mleVars, fitVars, models, pred_probit>>

\* the last figure: a new ax, the scatters of pred_logit, pred_probit and
\* favwin against spread, then the line of best fit; a scatter of two
\* series of different sizes raises ValueError, the name pred_probit
\* before its cell has run raises NameError
final_plot ==
  /\ pc = "final_plot"
  /\ LET logit_drawn == scatter(spread_column(vegas), pred_logit)
         probit_drawn == scatter(spread_column(vegas), pred_probit)
         data_drawn == scatter(spread_column(vegas), favwin_column(vegas))
     IN  IF ~logit_drawn.ok
         THEN /\ raised' = "ValueError"
              /\ ax' = <<>>
              /\ pc' = "stopped"
              /\ UNCHANGED <<p, x, y>>
         ELSE IF pred_probit = <<>> \/ ~probit_drawn.ok
         THEN /\ raised' = IF pred_probit = <<>> THEN "NameError" ELSE "ValueError"
              /\ ax' = <<logit_drawn>>
              /\ pc' = "stopped"
              /\ UNCHANGED <<p, x, y>>
         ELSE /\ ax' = <<logit_drawn, probit_drawn, data_drawn>>
              /\ p' = res_ols.params
              /\ x' = [k \in 1..range_stop |-> k - 1]
              /\ y' = best_fit_line(res_ols.params)
              /\ pc' = "done"
              /\ UNCHANGED raised
  /\ UNCHANGED <<vegas, res_ols, mleVars, fitVars, models, predVars>>

\* the cells a run can start again from once the notebook has run
RerunCells == {"margeff_probit", "margeff_logit", "pred_probit", "pred_logit"}

run_cell ==
  /\ pc = "done"
  /\ \E cell \in RerunCells : pc' = cell
  /\ UNCHANGED <<raised, olsVars, mleVars, fitVars, models, predVars>>

CellsInit ==
  /\ pc = "ols"
  /\ raised = "none"
  /\ vegas \in PairTables
  /\ res_ols = NoResult
  /\ ax = <<>>
  /\ p = <<>>
  /\ x = <<>>
  /\ y = <<>>
  /\ res_probit = NoResult
  /\ res_logit = NoResult
  /\ margeff = <<>>
  /\ avg_spread = <<>>
  /\ models = NoModels
  /\ pred_probit = <<>>
  /\ pred_logit = <<>>
  /\ f_pc = "idle"
  /\ f_model = "none"
  /\ f_data = <<>>
  /\ FitIdle

CellsNext ==
  \/ fit_ols \/ plot_ols
  \/ fit_probit \/ get_margeff_probit \/ plot_margeff \/ plot_line
  \/ fit_logit \/ get_margeff_logit
  \/ pred_probit_cell \/ pred_logit_cell \/ final_plot
  \/ run_cell

SpecCells == CellsInit /\ [][CellsNext]_vars

\* ====================================== claims: linear probability model
\* the rows of the table without a missing value, in the table's order
CompleteRows(data) == SelectSeq(data, LAMBDA r : r.favwin # <<>> /\ r.spread # <<>>)

\* the design matrix of the claims: constant 1, then spread
DesignX == [i \in 1..Len(CompleteRows(vegas)) |-> <<1, CompleteRows(vegas)[i].spread[1]>>]

OutcomeY == [i \in 1..Len(CompleteRows(vegas)) |-> CompleteRows(vegas)[i].favwin[1]]

\* the state the OLS cell leaves
OlsCellRan == pc = "plot_ols"

Singular == XtX(DesignX, 1, 1) * XtX(DesignX, 2, 2) = XtX(DesignX, 1, 2) * XtX(DesignX, 1, 2)

\* X'X b = X'y, row by row
NormalEquations(b) ==
  \A a \in 1..2 :
    RAdd(RMul(RInt(XtX(DesignX, a, 1)), b[1]), RMul(RInt(XtX(DesignX, a, 2)), b[2]))
      = RInt(Xty(DesignX, OutcomeY, a))

\* C5 as stated: a singular X'X makes the OLS fit fail with
\* SingularMatrixError and leaves no coefficient vector.
C5_Original ==
  (OlsCellRan /\ Singular) => (raised = "SingularMatrixError" /\ ~res_ols.fitted)

\* C5 amended: the OLS fit does not fail when X'X is singular; it returns
\* the minimum-norm least-squares coefficients (pseudo-inverse), which
\* satisfy the normal equations and are orthogonal to the null space of X.
C5_PinvOnSingular ==
  (OlsCellRan /\ Singular) =>
     /\ res_ols.fitted
     /\ raised = "none"
     /\ NormalEquations(res_ols.params)
     /\ RMul(res_ols.params[1], RInt(DesignX[1][2])) = res_ols.params[2]

C5_Witness ==
  /\ OlsCellRan /\ Singular /\ res_ols.fitted
  /\ Len(DesignX) >= 2 /\ DesignX[1][2] # 0
  /\ res_ols.params[2].n # 0

\* C6 as stated: a missing value makes the design-matrix build fail with
\* MissingValueError before any fit starts.
C6_Original ==
  (OlsCellRan /\ HasMissing(vegas)) => (raised = "MissingValueError" /\ ~res_ols.fitted)

\* C6 amended: the build never fails on a missing value; the rows with a
\* missing outcome or regressor are dropped, nothing is imputed, the other
\* rows keep their order and values, and the fit runs on them.
C6_RowsDropped ==
  OlsCellRan =>
     /\ res_ols.fitted
     /\ raised = "none"
     /\ res_ols.exog = DesignX
     /\ res_ols.endog = OutcomeY
     /\ Len(res_ols.fittedvalues) = Len(DesignX)

C6_Witness ==
  /\ OlsCellRan /\ HasMissing(vegas) /\ res_ols.fitted
  /\ Len(res_ols.exog) >= 2 /\ Len(res_ols.exog) < Len(vegas)

\* C7: on a table without missing values and with invertible X'X the OLS
\* coefficients satisfy X'X b = X'y for X = [1, spread].
C7_NormalEquations ==
  (OlsCellRan /\ ~HasMissing(vegas) /\ ~Singular) => NormalEquations(res_ols.params)

C7_Witness ==
  /\ OlsCellRan /\ ~HasMissing(vegas) /\ ~Singular
  /\ res_ols.params[1].n # 0 /\ res_ols.params[2].n # 0
  /\ res_ols.params[1] # res_ols.params[2]

\* C8: every OLS fitted value is Intercept + slope * spread as it comes,
\* below 0 and above 1 included, in res_ols.fittedvalues, in what the
\* scatter plot draws and in the line of best fit.
Linear(b, v) == RAdd(b[1], RMul(b[2], RInt(v)))

C8_NotClipped ==
  /\ OlsCellRan =>
       \A i \in 1..Len(DesignX) :
         /\ i \in DOMAIN res_ols.fittedvalues
         /\ res_ols.fittedvalues[i] = Linear(res_ols.params, DesignX[i][2])
  /\ pc = "probit" => ax.ys = res_ols.fittedvalues
  /\ pc = "logit" =>
       \A k \in 1..range_stop : y[k] = Linear(res_ols.params, k - 1)

C8_Witness ==
  /\ pc = "logit"
  /\ \E i \in 1..Len(res_ols.fittedvalues) :
       res_ols.fittedvalues[i].n > res_ols.fittedvalues[i].d
  /\ \E k \in 1..range_stop : y[k].n > y[k].d

\* ----------------------------------------- claims: the marginal effects
\* the states the marginal-effects cells leave: margeff holds the probit
\* effects, the logit ones
ProbitMargeffHeld == pc = "plot_margeff"

LogitMargeffHeld == pc = "done"

\* the state the plot of the marginal effects leaves: y holds the
\* per-observation probit curve, margeff still the probit effects
CurveHeld == pc = "line"

MeanSpread == Rat(SumSeq([i \in 1..Len(DesignX) |-> DesignX[i][2]]), Len(DesignX))

RAbs(r) == [n |-> Abs(r.n), d |-> r.d]

RLeq(a, b) == ~RLess(b, a)

\* the linear index b0 + b1 * v at a rational spread v
IndexAt(b, v) == RAdd(b[1], RMul(b[2], v))

SignOrZero(model, me, bj, idx) ==
  /\ me.k = "num"
  /\ FSign(me) \in {0, Sign(bj.n)}
  /\ (model = "probit" /\ RLeq(RAbs(idx), RInt(38))) => FSign(me) = Sign(bj.n)
  /\ (model = "probit" /\ RLeq(RInt(39), RAbs(idx))) => FSign(me) = 0
  /\ (model = "logit" /\ RLeq(RAbs(idx), RInt(700))) => FSign(me) = Sign(bj.n)

C10_MeanMode ==
  /\ ProbitMargeffHeld =>
        /\ Len(margeff) = 1
        /\ margeff[1] = FMul(norm_pdf(IndexAt(res_probit.params, MeanSpread)),
                             FRat(res_probit.params[2]))
  /\ LogitMargeffHeld =>
        /\ Len(margeff) = 1
        /\ margeff[1] = FMul(logit_pdf(IndexAt(res_logit.params, MeanSpread)),
                             FRat(res_logit.params[2]))
  /\ CurveHeld =>
        /\ avg_spread = MeanSpread
        /\ margeff[1] = FMul(norm_pdf(IndexAt(res_probit.params, avg_spread)),
                             FRat(res_probit.params[2]))

\* spreads that differ, so that the mean row is no observation, and an
\* effect that is neither zero nor the coefficient itself
C10_Witness ==
  /\ CurveHeld
  /\ \E i, j \in 1..Len(DesignX) : DesignX[i][2] # DesignX[j][2]
  /\ \A i \in 1..Len(DesignX) : RInt(DesignX[i][2]) # MeanSpread
  /\ FSign(margeff[1]) = -1
  /\ \A i \in 1..Len(y) : y[i] # margeff[1]

\* ------------------------------------------------------- claims: .fit()
FitDone == f_pc \in {"returned", "raised"}

FitDesign == [i \in 1..Len(f_data) |-> <<1, f_data[i].spread[1]>>]

\* some coefficient changed by more than tol in the last iteration
Moved ==
  \/ oldparams = <<>>
  \/ \E j \in 1..2 : newparams[j] - oldparams[j] > tol \/ oldparams[j] - newparams[j] > tol

\* 1e-8 in the unit of llf, tol^2 = 1e-16
ll_tol == 10000 * 10000

\* the log-likelihood changed by less than 1e-8 in the last iteration
LLChangeSmall == oldparams # <<>> /\ Abs(llf(newparams) - llf(oldparams)) < ll_tol

\* the steps a call has left at most
FitMeasure ==
  CASE f_pc = "start" -> maxiter + 3
    [] f_pc = "loop" -> (maxiter - iterations) + 2
    [] f_pc = "cov" -> 1
    [] OTHER -> 0

\* C1 as stated: the fit starts from 0, stops at the first iteration where
\* the log-likelihood changed by less than the tolerance, else at the cap,
\* and never reports more iterations than the cap.
C1_Original ==
  /\ [](iterations <= maxiter)
  /\ []((f_pc = "loop" /\ iterations = 0) => newparams = <<0, 0>>)
  /\ [][(f_pc = "loop" /\ iterations >= 1 /\ LLChangeSmall) => f_pc' # "loop"]_vars

C1_Inv ==
  /\ iterations \in 0..maxiter
  /\ (f_pc = "loop" /\ iterations = 0) => newparams = <<0, 0>>
  /\ mle_retvals.set => mle_retvals.iterations = iterations
  /\ FitDone \/ ENABLED FitNext

C1_Step ==
  /\ FitMeasure' < FitMeasure
  /\ (f_pc = "loop" /\ f_pc' = "loop") =>
        Moved /\ iterations < maxiter /\ iterations' = iterations + 1
  /\ (f_pc = "loop" /\ f_pc' = "cov") => (iterations = maxiter \/ ~Moved)

\* C1 amended: every fit terminates.  From beta = 0 the Newton loop runs
\* while some coefficient changed by more than 1e-8 in the last iteration
\* and fewer than 35 iterations are done; it stops at the first iteration
\* after which no coefficient changed by more than 1e-8 (the change of the
\* log-likelihood is not looked at), else after 35 iterations, so the
\* reported number of iterations never exceeds 35.
C1_StopsOnCoefficients == []C1_Inv /\ [][C1_Step]_vars

\* stopped before the cap by a change that is not zero and not above tol,
\* after a step that changed the log-likelihood by less than 1e-8 and
\* did not stop the loop
C1_Witness ==
  /\ f_pc = "cov"
  /\ iterations > 2 /\ iterations < maxiter
  /\ newparams # oldparams /\ ~Moved
  /\ LLChangeSmall

\* C2 as stated: the cap reached without the tolerance met, the caller
\* receives a result with the last coefficients and converged = false;
\* converged = true only when the tolerance was met.
C2_Original ==
  /\ (FitDone /\ iterations = maxiter /\ Moved) =>
        /\ f_pc = "returned"
        /\ fit_result.fitted
        /\ ~fit_result.mle_retvals.converged
        /\ fit_result.params = newparams
  /\ (f_pc = "returned" /\ fit_result.mle_retvals.converged) => ~Moved

\* C2 amended: the cap reached, the fit warns and, unless the inverse of
\* the Hessian then fails with LinAlgError (a constant spread, C4), returns
\* a result with the last coefficients and converged = false, also when the
\* last change was within the tolerance; converged = true exactly when the
\* loop stopped before the cap, which it does only with the tolerance met.
C2_CapNotFatal ==
  /\ f_pc = "returned" =>
        /\ fit_result.fitted
        /\ fit_result.params = newparams
        /\ fit_result.mle_retvals.iterations = iterations
        /\ fit_result.mle_retvals.converged <=> iterations < maxiter
  /\ (f_pc = "returned" /\ fit_result.mle_retvals.converged) => ~Moved
  /\ (FitDone /\ iterations = maxiter) =>
        \/ f_pc = "returned"
        \/ raised = "LinAlgError" /\ FitDesign[1][2] = FitDesign[2][2]

C2_Witness ==
  /\ f_pc = "returned"
  /\ iterations = maxiter /\ Moved
  /\ ~fit_result.mle_retvals.converged
  /\ fit_result.params = <<FarCoef, FarCoef - tol>>

\* the spreads of the design are one value
ConstantSpread == \A i, j \in 1..Len(FitDesign) : FitDesign[i][2] = FitDesign[j][2]

\* the spread column is a duplicate of the constant column
DuplicateColumn == \A i \in 1..Len(FitDesign) : FitDesign[i][2] = FitDesign[i][1]

FitOnTable(res, model) ==
  res.fitted =>
     /\ res.model = model
     /\ res.exog = DesignX
     /\ res.endog = OutcomeY
     /\ res.fittedvalues = [i \in 1..Len(DesignX) |-> Linear(res.params, DesignX[i][2])]

\* the OLS coefficients a fit of the table alone returns: the solution of
\* the normal equations, of minimum norm when X'X is singular
OlsAlone(b) ==
  /\ NormalEquations(b)
  /\ Singular => RMul(b[1], RInt(DesignX[1][2])) = b[2]

C11_Inv ==
  /\ FitOnTable(res_ols, "ols")
  /\ FitOnTable(res_probit, "probit")
  /\ FitOnTable(res_logit, "logit")
  /\ res_ols.fitted => OlsAlone(res_ols.params)
  /\ \A f \in Fitters :
       /\ models[f].stage # "new" => (models[f].exog = DesignX /\ models[f].endog = OutcomeY)
       /\ result_of(f).fitted <=> models[f].stage = "returned"
       /\ ~result_of(f).fitted => result_of(f) = NoResult

C11_Step ==
  /\ vegas' = vegas
  /\ \A f \in Fitters :
       /\ result_of(f).fitted => result_of(f)' = result_of(f)
       /\ models[f].stage # "new" =>
            (models'[f].exog = models[f].exog /\ models'[f].endog = models[f].endog)
       /\ \A g \in Fitters \ {f} :
            \/ (models'[f] = models[f] /\ result_of(f)' = result_of(f))
            \/ (models'[g] = models[g] /\ result_of(g)' = result_of(g))

ResultFields == {"fitted", "model", "exog", "endog", "params", "fittedvalues"}

C12_Inv ==
  \A f \in Fitters :
     /\ DOMAIN result_of(f) = ResultFields
     /\ result_of(f).fitted => result_of(f).model = f

\* pc = f is the fit call of f itself, which binds a new result
C12_Step ==
  \A f \in Fitters :
     (result_of(f).fitted /\ pc # f) => result_of(f)' = result_of(f)

ToyFit == f_data = ToyTable

\* the OLS slope on the toy table
ToyOlsSlope == ols_fit(ToyTable).params[2]

\* C13 as stated: on the toy table the logit fit and the probit fit both
\* converge within 50 iterations with converged = true, and the coefficient
\* on the regressor has the sign of the OLS slope.
C13_Original ==
  (ToyFit /\ FitDone) =>
     /\ f_pc = "returned"
     /\ fit_result.mle_retvals.converged
     /\ fit_result.mle_retvals.iterations <= 50
     /\ fit_result.params[2].s = Sign(ToyOlsSlope.n)

\* C13 amended: the regressor separates the toy table perfectly (favwin is
\* 1 exactly on the rows with spread >= 1), so neither fit converges: a
\* fit either raises PerfectSeparationError and leaves no result, or
\* returns at the cap of 35 iterations with warnflag 1 and converged =
\* false; the coefficient on the regressor that is returned has the sign
\* of the OLS slope.
C13_Separated ==
  (ToyFit /\ FitDone) =>
     \/ /\ f_pc = "raised"
        /\ raised = "PerfectSeparationError"
        /\ ~fit_result.fitted
     \/ /\ f_pc = "returned"
        /\ fit_result.mle_retvals.iterations = maxiter
        /\ fit_result.mle_retvals.warnflag = 1
        /\ ~fit_result.mle_retvals.converged
        /\ fit_result.params[2].s = Sign(ToyOlsSlope.n)

C13_Witness ==
  /\ ToyFit /\ f_pc = "returned" /\ f_model = "probit"
  /\ fit_result.mle_retvals.iterations = maxiter
  /\ fit_result.params[2].s = 1
  /\ ToyOlsSlope = Rat(21, 86)

====
